---- MODULE Spec2Model ----
(***************************************************************************)
(* Model of the blockpad package: block cipher paddings.                   *)
(*                                                                         *)
(* Byte slices are sequences of numbers in 0..255.  Go indices are         *)
(* 0-based; the element with Go index i of a slice s is s[i + 1].          *)
(* The random sources (crypto/rand, math/rand) are inputs of the padding   *)
(* operations: an operation receives the bytes the source delivers.        *)
(***************************************************************************)
EXTENDS Integers, Sequences, FiniteSets, TLC

VARIABLES
    pb,        \* the current *BlockPad, or NoPadder
    newErr,    \* the error of the last NewBlockPadding call
    newArgs,   \* the arguments of the last NewBlockPadding call
    clear,     \* the data given to the last Pad or PadLastBlock call
    padded,    \* the buffer at hand: a Pad result, tampered with or received
    src,       \* the padder that produced the buffer, or NoPadder
    lastParts, \* the two results of the last PadLastBlock call
    tamper,    \* the byte replaced in the buffer, or NoTamper
    padPanic,  \* the panic message of the last Pad or PadLastBlock, or NoPanic
    drawn,     \* the random bytes delivered to the last Pad or PadLastBlock
    zeroBlock, \* the bytes of pb.zeroBlock
    blocks,    \* the last block each goroutine has made
    calls,     \* the call each goroutine is in
    mem,       \* the buffers after the last padding call, and the slices it returned
    out,       \* what the last Unpad call returned, or NoResult
    pc,        \* the position of the caller
    fillCall,  \* a call of one of the fill functions of slicehelper
    retry      \* a call of getFillByte, draw by draw

\* The state of the callers of the padder.
caller == <<pb, newErr, newArgs, clear, padded, src, lastParts, tamper, padPanic, drawn,
            zeroBlock, blocks, calls, mem, out, pc>>

vars == <<caller, fillCall, retry>>

----------------------------------------------------------------------------
(* Bounds of the model. *)

\* Block sizes the padding operations are run with are 1..MaxBlockSize.
MaxBlockSize == 3

\* Clear data has at most MaxDataLen bytes.
MaxDataLen == 3

\* Buffers received from outside have at most MaxBufLen bytes.
MaxBufLen == 4

\* math/rand draws examined per anythingBut call.
MaxDraws == 2

\* The number of goroutines that share one BlockPad.
MaxGoroutines == 2

\* Slices of up to MaxFillVaried bytes are filled with every content, longer
\* ones up to MaxFillLen bytes from zeroes.
MaxFillVaried == 4
MaxFillLen == 76

----------------------------------------------------------------------------
(* Public constants and errors: blockpad.go *)

Zero == 0
PKCS7 == 1
X923 == 2
ISO10126 == 3
RFC4303 == 4
ISO78164 == 5
ArbitraryTailByte == 6
maxAlgorithm == 6

MaxUint8 == 255

NilErr == "nil"
ErrInvalidBlockSize == "invalid block size"
ErrInvalidPadAlgorithm == "invalid pad algorithm"
ErrInvalidPaddedDataLen == "padded data length is not a multiple of the block size"
ErrInvalidPadding == "invalid padding"

NoPanic == "none"
ZeroPanicMsg == "last data byte must not be 0"
IndexPanicMsg == "runtime error: index out of range"

\* The value of a byte after conversion from an int: byte(x).
Byte(x) == x % 256

\* The values of the PadAlgorithm type (a byte).
PadAlgorithmType == 0..MaxUint8

----------------------------------------------------------------------------
(* Slices *)

\* s[i] for the Go index i.
At(s, i) == s[i + 1]

\* Is i a valid Go index of s?
InRange(s, i) == i >= 0 /\ i < Len(s)

\* s[:n]
Prefix(s, n) == [i \in 1..n |-> s[i]]

\* s[n:]
From(s, n) == [i \in 1..(Len(s) - n) |-> s[n + i]]

\* make([]byte, n)
MakeBytes(n) == [i \in 1..n |-> 0]

\* copy(dst, src): copies min(len(dst), len(src)) elements to the start of dst.
Copy(dst, from) ==
    LET n == IF Len(dst) < Len(from) THEN Len(dst) ELSE Len(from)
    IN  [i \in 1..Len(dst) |-> IF i <= n THEN from[i] ELSE dst[i]]

\* copy(s[j:], s[:j]) seen on the whole of s.
CopyWithin(s, j) == Prefix(s, j) \o Copy(From(s, j), Prefix(s, j))

\* A variant of the loop of doFill that makes the first copy only.
doFillLoop_firstCopy(s, j, l) == IF j < l THEN CopyWithin(s, j) ELSE s

\* The loop of doFill: for j := 1; j < l; j <<= 1 { copy(s[j:], s[:j]) }
RECURSIVE doFillLoop(_, _, _)
doFillLoop(s, j, l) ==
    IF j < l THEN doFillLoop(CopyWithin(s, j), 2 * j, l) ELSE s

\* doFill: s[0] = v, then the doubling copies.
doFill(s, v, l) == doFillLoop([s EXCEPT ![1] = v], 1, l)

\* slicehelper.Fill
Fill(s, v) == IF Len(s) > 0 THEN doFill(s, v, Len(s)) ELSE s

\* The slice length from which the fill by doubling is the faster one.
powerFasterThresholdLen == 74

\* for i := 0; i < l; i++ { s[i] = v }
RECURSIVE doSimpleFillLoop(_, _, _, _)
doSimpleFillLoop(s, v, i, l) ==
    IF i < l THEN doSimpleFillLoop([s EXCEPT ![i + 1] = v], v, i + 1, l) ELSE s

doSimpleFill(s, v, l) == doSimpleFillLoop(s, v, 0, l)

\* doPowerFill: s[0] = v, then the doubling copies.
doPowerFill(s, v, l) == doFillLoop([s EXCEPT ![1] = v], 1, l)

\* slicehelper.SimpleFill
SimpleFill(s, v) == IF Len(s) > 0 THEN doSimpleFill(s, v, Len(s)) ELSE s

\* slicehelper.PowerFill
PowerFill(s, v) == IF Len(s) > 0 THEN doPowerFill(s, v, Len(s)) ELSE s

\* slicehelper.Fill in the version that chooses between the two fills by
\* the length of the slice.
FillByLength(s, v) ==
    IF Len(s) > 0
    THEN IF Len(s) >= powerFasterThresholdLen
         THEN doPowerFill(s, v, Len(s))
         ELSE doSimpleFill(s, v, Len(s))
    ELSE s

\* A variant of Concat that sizes the result for the first slice only and
\* then cuts what it appended to that size.
Concat_firstSize(a, b) == SubSeq(a \o b, 1, Len(a))

\* slicehelper.Concat of two slices.
Concat(a, b) == a \o b

----------------------------------------------------------------------------
(* Results of the private functions.  A filler either panics or leaves the *)
(* last block filled.                                                      *)

Filled(block) == [block |-> block, panic |-> NoPanic]
FillerPanic(msg) == [block |-> <<>>, panic |-> msg]

\* What the random sources deliver to one padding call: crypto is what
\* crypto/rand.Read writes, mr the successive results of mrand.Int31n(256).
NoRandom == [crypto |-> <<>>, mr |-> <<>>]

----------------------------------------------------------------------------
(* The padding fillers: fillers.go *)

zeroFiller(lastBlock, blockSize, lastData, lastBlockDataLen, padLen) ==
    IF lastBlockDataLen > 0 /\ At(lastData, lastBlockDataLen - 1) = 0
    THEN FillerPanic(ZeroPanicMsg)
    ELSE Filled(lastBlock)

pkcs7Filler(lastBlock, blockSize, lastData, lastBlockDataLen, padLen) ==
    Filled(Fill(lastBlock, Byte(padLen)))

\* A variant of x923Filler that puts the length at the end of the first
\* padLen bytes of the block instead of at the end of the block.
x923Filler_padIndex(lastBlock, blockSize, lastData, lastBlockDataLen, padLen) ==
    Filled([lastBlock EXCEPT ![padLen] = Byte(padLen)])

x923Filler(lastBlock, blockSize, lastData, lastBlockDataLen, padLen) ==
    Filled([lastBlock EXCEPT ![blockSize] = Byte(padLen)])

\* rand.Read(lastBlock) overwrites the whole block with the delivered bytes.
iso10126Filler(lastBlock, blockSize, lastData, lastBlockDataLen, padLen, rnd) ==
    Filled([Copy(lastBlock, rnd.crypto) EXCEPT ![blockSize] = Byte(padLen)])

\* for i := blockSize - 1; i >= 0; i-- { lastBlock[i] = padByte; padByte-- }
RECURSIVE rfc4303FillLoop(_, _, _)
rfc4303FillLoop(lastBlock, i, padByte) ==
    IF i >= 0
    THEN rfc4303FillLoop([lastBlock EXCEPT ![i + 1] = padByte], i - 1, Byte(padByte - 1))
    ELSE lastBlock

\* A variant of rfc4303Filler that starts to count at the block size instead of
\* the pad length.
rfc4303Filler_fromBlockSize(lastBlock, blockSize, lastData, lastBlockDataLen, padLen) ==
    Filled(rfc4303FillLoop(lastBlock, blockSize - 1, Byte(blockSize)))

rfc4303Filler(lastBlock, blockSize, lastData, lastBlockDataLen, padLen) ==
    Filled(rfc4303FillLoop(lastBlock, blockSize - 1, Byte(padLen)))

iso78164Filler(lastBlock, blockSize, lastData, lastBlockDataLen, padLen) ==
    Filled([lastBlock EXCEPT ![lastBlockDataLen + 1] = 128])

\* A variant of anythingBut that leaves its loop on the byte it must avoid.
anythingButBreaks_onEqual(result, notThisByte) == result = notThisByte

\* if result != notThisByte { break }
anythingButBreaks(result, notThisByte) == result # notThisByte

\* The number of draws anythingBut makes before it leaves its loop, or 0
\* when none of the delivered draws ends it.
RECURSIVE anythingButDraws(_, _, _)
anythingButDraws(notThisByte, draws, k) ==
    IF k > Len(draws) THEN 0
    ELSE IF Byte(draws[k]) # notThisByte THEN k
    ELSE anythingButDraws(notThisByte, draws, k + 1)

\* anythingBut: the first draw that differs from notThisByte.
anythingBut(notThisByte, draws) ==
    Byte(draws[anythingButDraws(notThisByte, draws, 1)])

\* A variant of getFillByte that takes the first draw whatever the data ends with.
getFillByte_firstDraw(lastData, lastBlockDataLen, draws) ==
    Byte(draws[1])

getFillByte(lastData, lastBlockDataLen, draws) ==
    IF lastBlockDataLen # 0
    THEN anythingBut(At(lastData, lastBlockDataLen - 1), draws)
    ELSE Byte(draws[1])

\* A variant of arbitraryTailByteFiller that fills the first padLen bytes of
\* the block only.
arbitraryTailByteFiller_firstBytes(lastBlock, blockSize, lastData, lastBlockDataLen, padLen, rnd) ==
    Filled(Fill(Prefix(lastBlock, padLen), getFillByte(lastData, lastBlockDataLen, rnd.mr))
               \o From(lastBlock, padLen))

arbitraryTailByteFiller(lastBlock, blockSize, lastData, lastBlockDataLen, padLen, rnd) ==
    Filled(Fill(lastBlock, getFillByte(lastData, lastBlockDataLen, rnd.mr)))

\* Are the delivered draws the ones the call makes before it returns?  With
\* data in the last block anythingBut draws until a draw differs from the
\* last data byte; a last block of padding only takes one draw.
DrawsSuffice(padAlgorithm, lastData, lastBlockDataLen, rnd) ==
    IF padAlgorithm = ArbitraryTailByte
    THEN IF lastBlockDataLen # 0
         THEN anythingButDraws(At(lastData, lastBlockDataLen - 1), rnd.mr, 1) = Len(rnd.mr)
         ELSE Len(rnd.mr) = 1
    ELSE TRUE

----------------------------------------------------------------------------
(* The table of implementations: common.go *)

padImplementationNames ==
    <<"Zero", "PKCS#7", "X.923", "ISO 10126", "RFC 4303", "ISO 7816-4",
      "Arbitrary Tail Byte">>

\* padImplementation[padAlgorithm].filler
filler(padAlgorithm, lastBlock, blockSize, lastData, lastBlockDataLen, padLen, rnd) ==
    CASE padAlgorithm = Zero -> zeroFiller(lastBlock, blockSize, lastData, lastBlockDataLen, padLen)
      [] padAlgorithm = PKCS7 -> pkcs7Filler(lastBlock, blockSize, lastData, lastBlockDataLen, padLen)
      [] padAlgorithm = X923 -> x923Filler(lastBlock, blockSize, lastData, lastBlockDataLen, padLen)
      [] padAlgorithm = ISO10126 -> iso10126Filler(lastBlock, blockSize, lastData, lastBlockDataLen, padLen, rnd)
      [] padAlgorithm = RFC4303 -> rfc4303Filler(lastBlock, blockSize, lastData, lastBlockDataLen, padLen)
      [] padAlgorithm = ISO78164 -> iso78164Filler(lastBlock, blockSize, lastData, lastBlockDataLen, padLen)
      [] padAlgorithm = ArbitraryTailByte -> arbitraryTailByteFiller(lastBlock, blockSize, lastData, lastBlockDataLen, padLen, rnd)

----------------------------------------------------------------------------
(* Construction: common.go, methods.go *)

\* A variant of checkBlockSize whose upper limit is one too high.
checkBlockSize_offByOne(blockSize) ==
    IF blockSize < 1 \/ blockSize > MaxUint8 + 1 THEN ErrInvalidBlockSize ELSE NilErr

checkBlockSize(blockSize) ==
    IF blockSize < 1 \/ blockSize > MaxUint8 THEN ErrInvalidBlockSize ELSE NilErr

checkPadAlgorithmAndBlockSize(padAlgorithm, blockSize) ==
    LET err == checkBlockSize(blockSize)
    IN  IF err # NilErr THEN err
        ELSE IF padAlgorithm > maxAlgorithm THEN ErrInvalidPadAlgorithm
        ELSE NilErr

NoPadder == [worker |-> -1, blockSize |-> 0]

\* The *BlockPad that NewBlockPadding returns; worker is the index of the
\* table entry copied into the padder.  The zero block of the padder is
\* make([]byte, blockSize) and is never written: it is MakeBytes(blockSize).
NewBlockPaddingResult(padAlgorithm, blockSize) ==
    LET err == checkPadAlgorithmAndBlockSize(padAlgorithm, blockSize)
    IN  IF err # NilErr
        THEN [padder |-> NoPadder, err |-> err]
        ELSE [padder |-> [worker |-> padAlgorithm, blockSize |-> blockSize],
              err |-> NilErr]

----------------------------------------------------------------------------
(* Padding: methods.go *)

\* A variant of padLengths that takes the last block of block-aligned data
\* for the block to pad, so that no block is added.
padLengths_noExtraBlock(dataLen, blockSize) ==
    LET fullBlockCount == IF dataLen > 0 /\ dataLen % blockSize = 0
                          THEN dataLen \div blockSize - 1
                          ELSE dataLen \div blockSize
        fullBlockDataLen == fullBlockCount * blockSize
        lastBlockDataLen == dataLen - fullBlockDataLen
        padLen == blockSize - lastBlockDataLen
    IN  <<fullBlockDataLen, lastBlockDataLen, padLen>>

\* padLengths returns <<fullBlockDataLen, lastBlockDataLen, padLen>>.
padLengths(dataLen, blockSize) ==
    LET fullBlockCount == dataLen \div blockSize
        fullBlockDataLen == fullBlockCount * blockSize
        lastBlockDataLen == dataLen - fullBlockDataLen
        padLen == blockSize - lastBlockDataLen
    IN  <<fullBlockDataLen, lastBlockDataLen, padLen>>

\* A variant of PadLastBlock that leaves out its last step, the copy of the
\* last data into the last block.
PadLastBlockResult_noDataCopy(p, data, rnd) ==
    LET dataLen == Len(data)
        blockSize == p.blockSize
        lens == padLengths(dataLen, blockSize)
        fullBlockDataLen == lens[1]
        lastBlockDataLen == lens[2]
        padLen == lens[3]
        lastData == From(data, fullBlockDataLen)
        zeroed == Copy(MakeBytes(blockSize), Prefix(MakeBytes(blockSize), padLen))
        f == filler(p.worker, zeroed, blockSize, lastData, lastBlockDataLen, padLen, rnd)
    IN  IF f.panic # NoPanic
        THEN [full |-> <<>>, last |-> <<>>, panic |-> f.panic]
        ELSE [full |-> Prefix(data, fullBlockDataLen), last |-> f.block, panic |-> NoPanic]

\* A variant of PadLastBlock that copies the last data into the last block
\* first and calls the filler afterwards.
PadLastBlockResult_fillAfterCopy(p, data, rnd) ==
    LET dataLen == Len(data)
        blockSize == p.blockSize
        lens == padLengths(dataLen, blockSize)
        fullBlockDataLen == lens[1]
        lastBlockDataLen == lens[2]
        padLen == lens[3]
        lastData == From(data, fullBlockDataLen)
        zeroed == Copy(MakeBytes(blockSize), Prefix(MakeBytes(blockSize), padLen))
        copied == Copy(zeroed, Prefix(lastData, lastBlockDataLen))
        f == filler(p.worker, copied, blockSize, lastData, lastBlockDataLen, padLen, rnd)
    IN  IF f.panic # NoPanic
        THEN [full |-> <<>>, last |-> <<>>, panic |-> f.panic]
        ELSE [full |-> Prefix(data, fullBlockDataLen), last |-> f.block, panic |-> NoPanic]

\* The last block of PadLastBlock when its filler has returned, before the
\* last data is copied into it.
FilledBlock(p, data, rnd) ==
    LET blockSize == p.blockSize
        lens == padLengths(Len(data), blockSize)
        lastData == From(data, lens[1])
        zeroed == Copy(MakeBytes(blockSize), Prefix(MakeBytes(blockSize), lens[3]))
    IN  filler(p.worker, zeroed, blockSize, lastData, lens[2], lens[3], rnd).block

\* PadLastBlock: the two returned slices, or the panic that ends the call.
PadLastBlockResult(p, data, rnd) ==
    LET dataLen == Len(data)
        blockSize == p.blockSize
        lens == padLengths(dataLen, blockSize)
        fullBlockDataLen == lens[1]
        lastBlockDataLen == lens[2]
        padLen == lens[3]
        lastData == From(data, fullBlockDataLen)
        zeroed == Copy(MakeBytes(blockSize), Prefix(MakeBytes(blockSize), padLen))
        f == filler(p.worker, zeroed, blockSize, lastData, lastBlockDataLen, padLen, rnd)
    IN  IF f.panic # NoPanic
        THEN [full |-> <<>>, last |-> <<>>, panic |-> f.panic]
        ELSE [full |-> Prefix(data, fullBlockDataLen),
              last |-> Copy(f.block, Prefix(lastData, lastBlockDataLen)),
              panic |-> NoPanic]

\* Pad: the returned slice, or the panic that ends the call.
PadResult(p, data, rnd) ==
    LET parts == PadLastBlockResult(p, data, rnd)
    IN  IF parts.panic # NoPanic
        THEN [data |-> <<>>, panic |-> parts.panic]
        ELSE [data |-> Concat(parts.full, parts.last), panic |-> NoPanic]

----------------------------------------------------------------------------
(* The work of a padding call: the bytes its copies transfer, the bytes    *)
(* its filler writes and the random values it draws.                       *)

\* The number of elements copy(dst, src) transfers.
Copied(dstLen, srcLen) == IF dstLen < srcLen THEN dstLen ELSE srcLen

\* The elements the loop of doFill writes: copy(s[j:], s[:j]) for j = 1, 2, 4, ...
RECURSIVE doFillWrites(_, _)
doFillWrites(j, l) ==
    IF j < l THEN Copied(l - j, j) + doFillWrites(2 * j, l) ELSE 0

\* The elements slicehelper.Fill writes to a slice of n elements.
FillWrites(n) == IF n > 0 THEN 1 + doFillWrites(1, n) ELSE 0

\* The draws getFillByte makes: those of anythingBut when the last block
\* holds data, one when it holds padding only.
getFillByteDraws(lastData, lastBlockDataLen, draws) ==
    IF lastBlockDataLen # 0
    THEN anythingButDraws(At(lastData, lastBlockDataLen - 1), draws, 1)
    ELSE 1

\* The bytes a filler writes to the last block and the random values it draws.
fillerWork(padAlgorithm, blockSize, lastData, lastBlockDataLen, padLen, rnd) ==
    CASE padAlgorithm = Zero -> [writes |-> 0, draws |-> 0]
      [] padAlgorithm = PKCS7 -> [writes |-> FillWrites(blockSize), draws |-> 0]
      [] padAlgorithm = X923 -> [writes |-> 1, draws |-> 0]
      [] padAlgorithm = ISO10126 -> [writes |-> blockSize + 1, draws |-> blockSize]
      [] padAlgorithm = RFC4303 -> [writes |-> blockSize, draws |-> 0]
      [] padAlgorithm = ISO78164 -> [writes |-> 1, draws |-> 0]
      [] padAlgorithm = ArbitraryTailByte ->
            [writes |-> FillWrites(blockSize),
             draws |-> getFillByteDraws(lastData, lastBlockDataLen, rnd.mr)]

\* The work of PadLastBlock: the bytes of its two copies, and its filler's work.
PadLastBlockWork(p, data, rnd) ==
    LET blockSize == p.blockSize
        lens == padLengths(Len(data), blockSize)
        lastData == From(data, lens[1])
        f == fillerWork(p.worker, blockSize, lastData, lens[2], lens[3], rnd)
    IN  [copied |-> Copied(blockSize, lens[3]) + Copied(blockSize, lens[2]),
         writes |-> f.writes,
         draws |-> f.draws]

----------------------------------------------------------------------------
(* The padding removers: removers.go                                       *)
(*                                                                         *)
(* A remover returns a slice and an error, or panics.  reads is the set of *)
(* Go indices of the data bytes the call has read when it ends.            *)

NoReads == {}

Returned(slice, reads) ==
    [data |-> slice, isNil |-> FALSE, err |-> NilErr, panic |-> NoPanic, reads |-> reads]

Failed(err, reads) ==
    [data |-> <<>>, isNil |-> TRUE, err |-> err, panic |-> NoPanic, reads |-> reads]

Panicked(msg, reads) ==
    [data |-> <<>>, isNil |-> TRUE, err |-> NilErr, panic |-> msg, reads |-> reads]

\* for i := ...; i >= endIndex; i-- { if data[i] != 0 { return data[:i+1], nil } }
\* return data[:endIndex], nil
RECURSIVE zeroRemoverLoop(_, _, _, _)
zeroRemoverLoop(data, i, endIndex, reads) ==
    IF i >= endIndex
    THEN IF At(data, i) # 0
         THEN Returned(Prefix(data, i + 1), reads \cup {i})
         ELSE zeroRemoverLoop(data, i - 1, endIndex, reads \cup {i})
    ELSE Returned(Prefix(data, endIndex), reads)

\* A variant of zeroRemover that scans back to the start of the data instead
\* of the start of the last block.
zeroRemover_wholeData(data, dataLen, blockSize) ==
    LET lastIndex == dataLen - 1
    IN  IF ~InRange(data, lastIndex) THEN Panicked(IndexPanicMsg, NoReads)
        ELSE IF At(data, lastIndex) # 0 THEN Failed(ErrInvalidPadding, {lastIndex})
        ELSE zeroRemoverLoop(data, lastIndex - 1, 0, {lastIndex})

zeroRemover(data, dataLen, blockSize) ==
    LET lastIndex == dataLen - 1
        endIndex == dataLen - blockSize
    IN  IF ~InRange(data, lastIndex) THEN Panicked(IndexPanicMsg, NoReads)
        ELSE IF At(data, lastIndex) # 0 THEN Failed(ErrInvalidPadding, {lastIndex})
        ELSE zeroRemoverLoop(data, lastIndex - 1, endIndex, {lastIndex})

\* A variant of checkLengthByte that compares the pad length with the length
\* of the data only, not with the block size.
checkLengthByte_dataLenOnly(data, dataLen, blockSize) ==
    LET lastIndex == dataLen - 1
    IN  IF ~InRange(data, lastIndex)
        THEN [lastIndex |-> 0, padLenByte |-> 0, padLen |-> 0, err |-> NilErr,
              panic |-> IndexPanicMsg, reads |-> NoReads]
        ELSE LET padLenByte == At(data, lastIndex)
                 padLen == padLenByte
             IN  IF padLen > dataLen
                 THEN [lastIndex |-> 0, padLenByte |-> 0, padLen |-> 0,
                       err |-> ErrInvalidPadding, panic |-> NoPanic, reads |-> {lastIndex}]
                 ELSE [lastIndex |-> lastIndex, padLenByte |-> padLenByte, padLen |-> padLen,
                       err |-> NilErr, panic |-> NoPanic, reads |-> {lastIndex}]

\* checkLengthByte returns (lastIndex, padLenByte, padLen, err), or panics.
checkLengthByte(data, dataLen, blockSize) ==
    LET lastIndex == dataLen - 1
    IN  IF ~InRange(data, lastIndex)
        THEN [lastIndex |-> 0, padLenByte |-> 0, padLen |-> 0, err |-> NilErr,
              panic |-> IndexPanicMsg, reads |-> NoReads]
        ELSE LET padLenByte == At(data, lastIndex)
                 padLen == padLenByte
             IN  IF padLen > blockSize \/ padLen > dataLen
                 THEN [lastIndex |-> 0, padLenByte |-> 0, padLen |-> 0,
                       err |-> ErrInvalidPadding, panic |-> NoPanic, reads |-> {lastIndex}]
                 ELSE [lastIndex |-> lastIndex, padLenByte |-> padLenByte, padLen |-> padLen,
                       err |-> NilErr, panic |-> NoPanic, reads |-> {lastIndex}]

\* A variant of the loop of pkcs7Remover that does not compare the first
\* byte of the padding.
RECURSIVE pkcs7RemoverLoop_skipsFirst(_, _, _, _, _)
pkcs7RemoverLoop_skipsFirst(data, i, endIndex, padLenByte, reads) ==
    IF i > endIndex
    THEN IF At(data, i) # padLenByte
         THEN [data |-> <<>>, isNil |-> TRUE, err |-> ErrInvalidPadding,
               panic |-> NoPanic, reads |-> reads \cup {i}]
         ELSE pkcs7RemoverLoop_skipsFirst(data, i - 1, endIndex, padLenByte, reads \cup {i})
    ELSE [data |-> Prefix(data, endIndex), isNil |-> FALSE, err |-> NilErr,
          panic |-> NoPanic, reads |-> reads]

\* for i := ...; i >= endIndex; i-- { if data[i] != padLenByte { return nil, ErrInvalidPadding } }
RECURSIVE pkcs7RemoverLoop(_, _, _, _, _)
pkcs7RemoverLoop(data, i, endIndex, padLenByte, reads) ==
    IF i >= endIndex
    THEN IF At(data, i) # padLenByte
         THEN Failed(ErrInvalidPadding, reads \cup {i})
         ELSE pkcs7RemoverLoop(data, i - 1, endIndex, padLenByte, reads \cup {i})
    ELSE Returned(Prefix(data, endIndex), reads)

pkcs7Remover(data, dataLen, blockSize) ==
    LET c == checkLengthByte(data, dataLen, blockSize)
    IN  IF c.panic # NoPanic THEN Panicked(c.panic, c.reads)
        ELSE IF c.err # NilErr THEN Failed(c.err, c.reads)
        ELSE IF c.padLenByte = 0 THEN Failed(ErrInvalidPadding, c.reads)
        ELSE pkcs7RemoverLoop(data, c.lastIndex - 1, dataLen - c.padLen, c.padLenByte, c.reads)

\* for i := ...; i >= endIndex; i-- { if data[i] != 0 { return nil, ErrInvalidPadding } }
RECURSIVE x923RemoverLoop(_, _, _, _)
x923RemoverLoop(data, i, endIndex, reads) ==
    IF i >= endIndex
    THEN IF At(data, i) # 0
         THEN Failed(ErrInvalidPadding, reads \cup {i})
         ELSE x923RemoverLoop(data, i - 1, endIndex, reads \cup {i})
    ELSE Returned(Prefix(data, endIndex), reads)

\* A variant of x923Remover that does not look at the bytes before the
\* length byte.
x923Remover_lengthOnly(data, dataLen, blockSize) ==
    LET c == checkLengthByte(data, dataLen, blockSize)
    IN  IF c.panic # NoPanic \/ c.err # NilErr \/ c.padLen = 0
        THEN [data |-> <<>>, isNil |-> TRUE,
              err |-> IF c.panic # NoPanic THEN NilErr ELSE ErrInvalidPadding,
              panic |-> c.panic, reads |-> c.reads]
        ELSE [data |-> Prefix(data, dataLen - c.padLen), isNil |-> FALSE, err |-> NilErr,
              panic |-> NoPanic, reads |-> c.reads]

x923Remover(data, dataLen, blockSize) ==
    LET c == checkLengthByte(data, dataLen, blockSize)
    IN  IF c.panic # NoPanic THEN Panicked(c.panic, c.reads)
        ELSE IF c.err # NilErr THEN Failed(c.err, c.reads)
        ELSE IF c.padLen = 0 THEN Failed(ErrInvalidPadding, c.reads)
        ELSE x923RemoverLoop(data, c.lastIndex - 1, dataLen - c.padLen, c.reads)

\* A variant of iso10126Remover that also demands the length in every byte
\* of the padding, as pkcs7Remover does.
iso10126Remover_checksBytes(data, dataLen, blockSize) ==
    pkcs7Remover(data, dataLen, blockSize)

iso10126Remover(data, dataLen, blockSize) ==
    LET c == checkLengthByte(data, dataLen, blockSize)
    IN  IF c.panic # NoPanic THEN Panicked(c.panic, c.reads)
        ELSE IF c.err # NilErr THEN Failed(c.err, c.reads)
        ELSE IF c.padLen = 0 THEN Failed(ErrInvalidPadding, c.reads)
        ELSE Returned(Prefix(data, dataLen - c.padLen), c.reads)

\* for i := ...; i >= endIndex; i-- { padLenByte--; if data[i] != padLenByte { return nil, ErrInvalidPadding } }
RECURSIVE rfc4303RemoverLoop(_, _, _, _, _)
rfc4303RemoverLoop(data, i, endIndex, padLenByte, reads) ==
    IF i >= endIndex
    THEN IF At(data, i) # Byte(padLenByte - 1)
         THEN Failed(ErrInvalidPadding, reads \cup {i})
         ELSE rfc4303RemoverLoop(data, i - 1, endIndex, Byte(padLenByte - 1), reads \cup {i})
    ELSE Returned(Prefix(data, endIndex), reads)

rfc4303Remover(data, dataLen, blockSize) ==
    LET c == checkLengthByte(data, dataLen, blockSize)
    IN  IF c.panic # NoPanic THEN Panicked(c.panic, c.reads)
        ELSE IF c.err # NilErr THEN Failed(c.err, c.reads)
        ELSE IF c.padLen = 0 THEN Failed(ErrInvalidPadding, c.reads)
        ELSE rfc4303RemoverLoop(data, c.lastIndex - 1, dataLen - c.padLen, c.padLenByte, c.reads)

\* for ; lastIndex >= endIndex; lastIndex-- { if data[lastIndex] != 0 { break } }
\* The loop ends with <<lastIndex, reads, panicked>>.
RECURSIVE iso78164RemoverLoop(_, _, _, _)
iso78164RemoverLoop(data, lastIndex, endIndex, reads) ==
    IF lastIndex >= endIndex
    THEN IF ~InRange(data, lastIndex) THEN <<lastIndex, reads, TRUE>>
         ELSE IF At(data, lastIndex) # 0 THEN <<lastIndex, reads \cup {lastIndex}, FALSE>>
         ELSE iso78164RemoverLoop(data, lastIndex - 1, endIndex, reads \cup {lastIndex})
    ELSE <<lastIndex, reads, FALSE>>

\* After the loop data[lastIndex] is read once more, wherever the loop ended.
iso78164Remover(data, dataLen, blockSize) ==
    LET l == iso78164RemoverLoop(data, dataLen - 1, dataLen - blockSize, NoReads)
        lastIndex == l[1]
    IN  IF l[3] \/ ~InRange(data, lastIndex) THEN Panicked(IndexPanicMsg, l[2])
        ELSE IF At(data, lastIndex) # 128 THEN Failed(ErrInvalidPadding, l[2] \cup {lastIndex})
        ELSE Returned(Prefix(data, lastIndex), l[2] \cup {lastIndex})

\* for i := ...; i >= endIndex; i-- { if data[i] != padByte { return data[:i+1], nil } }
RECURSIVE arbitraryTailBytePaddingRemoverLoop(_, _, _, _, _)
arbitraryTailBytePaddingRemoverLoop(data, i, endIndex, padByte, reads) ==
    IF i >= endIndex
    THEN IF At(data, i) # padByte
         THEN Returned(Prefix(data, i + 1), reads \cup {i})
         ELSE arbitraryTailBytePaddingRemoverLoop(data, i - 1, endIndex, padByte, reads \cup {i})
    ELSE Returned(Prefix(data, endIndex), reads)

\* A variant of arbitraryTailBytePaddingRemover that scans back to the start
\* of the data instead of the start of the last block.
arbitraryTailBytePaddingRemover_wholeData(data, dataLen, blockSize) ==
    LET lastIndex == dataLen - 1
    IN  IF ~InRange(data, lastIndex)
        THEN [data |-> <<>>, isNil |-> TRUE, err |-> NilErr,
              panic |-> IndexPanicMsg, reads |-> NoReads]
        ELSE arbitraryTailBytePaddingRemoverLoop(data, lastIndex - 1, 0,
                                                 At(data, lastIndex), {lastIndex})

arbitraryTailBytePaddingRemover(data, dataLen, blockSize) ==
    LET lastIndex == dataLen - 1
    IN  IF ~InRange(data, lastIndex) THEN Panicked(IndexPanicMsg, NoReads)
        ELSE arbitraryTailBytePaddingRemoverLoop(data, lastIndex - 1, dataLen - blockSize,
                                                 At(data, lastIndex), {lastIndex})

\* padImplementation[padAlgorithm].remover
remover(padAlgorithm, data, dataLen, blockSize) ==
    CASE padAlgorithm = Zero -> zeroRemover(data, dataLen, blockSize)
      [] padAlgorithm = PKCS7 -> pkcs7Remover(data, dataLen, blockSize)
      [] padAlgorithm = X923 -> x923Remover(data, dataLen, blockSize)
      [] padAlgorithm = ISO10126 -> iso10126Remover(data, dataLen, blockSize)
      [] padAlgorithm = RFC4303 -> rfc4303Remover(data, dataLen, blockSize)
      [] padAlgorithm = ISO78164 -> iso78164Remover(data, dataLen, blockSize)
      [] padAlgorithm = ArbitraryTailByte -> arbitraryTailBytePaddingRemover(data, dataLen, blockSize)

\* A variant of Unpad that reports a wrong length as a wrong padding.
UnpadResult_wrongError(p, data) ==
    LET dataLen == Len(data)
    IN  IF dataLen % p.blockSize # 0
        THEN [data |-> <<>>, isNil |-> TRUE, err |-> ErrInvalidPadding,
              panic |-> NoPanic, reads |-> NoReads]
        ELSE remover(p.worker, data, dataLen, p.blockSize)

\* Unpad: methods.go
UnpadResult(p, data) ==
    LET dataLen == Len(data)
    IN  IF dataLen % p.blockSize # 0
        THEN Failed(ErrInvalidPaddedDataLen, NoReads)
        ELSE remover(p.worker, data, dataLen, p.blockSize)

----------------------------------------------------------------------------
(* The caller: one sequence of calls on the package.                       *)

NoArgs == [padAlgorithm |-> -1, blockSize |-> 0]
NoTamper == [index |-> -1, old |-> 0, new |-> 0]
NoParts == [full |-> <<>>, last |-> <<>>]
NoResult == [data |-> <<>>, isNil |-> TRUE, err |-> NilErr, panic |-> NoPanic, reads |-> NoReads]

\* The byte values used: every length byte a block size of the model admits,
\* and the marker 0x80, which exceeds them all.
ByteVals == (0..MaxBlockSize) \cup {128}

\* The byte values the random sources deliver in the model.
RandVals == {0, MaxUint8}

\* All byte sequences over vals of a length in lo..hi.
SeqsOf(vals, lo, hi) == UNION {[1..k -> vals] : k \in lo..hi}

\* The block sizes and pad algorithms NewBlockPadding is called with.
BlockSizes == {-1, 0} \cup (1..MaxBlockSize) \cup {MaxUint8, MaxUint8 + 1}
PadAlgorithms == (0..(maxAlgorithm + 1)) \cup {MaxUint8}

\* What the random sources may deliver to a padding call of padder p.
RandomFor(p, vals) ==
    IF p.worker = ISO10126
    THEN {[crypto |-> c, mr |-> <<>>] : c \in [1..p.blockSize -> vals]}
    ELSE IF p.worker = ArbitraryTailByte
    THEN {[crypto |-> <<>>, mr |-> m] : m \in SeqsOf(vals, 1, MaxDraws)}
    ELSE {NoRandom}

\* The buffers of a padding call: the caller's data, the last block that
\* PadLastBlock makes, and the slice that Concat makes.
Buffers == {"data", "block", "result"}

\* A variant of PadLastBlock that takes the end of the caller's buffer for
\* the last block and pads in place.
LastBlockBuffer_inPlace == "data"

\* lastBlock := make([]byte, blockSize): the last block is a new buffer.
LastBlockBuffer == "block"

\* return data[:fullBlockDataLen], ...: a slice of the caller's buffer.
FullBlockBuffer == "data"

\* result := make(S, 0, size): Concat appends to a new buffer.
ConcatBuffer == "result"

\* A slice: len bytes of buffer buf from its start.
Slice(buf, len) == [buf |-> buf, len |-> len]

\* The bytes of a slice.
SliceBytes(heap, slice) == Prefix(heap[slice.buf], slice.len)

\* slice[index] = v stores into the buffer the slice is a part of.
SliceStore(m, k, index, v) ==
    [m EXCEPT !.heap[m.slices[k].buf][index + 1] = v, !.wrote = <<k, index>>]

\* No padding call has returned.
NoMem == [heap |-> [b \in Buffers |-> <<>>], slices |-> <<>>, wrote |-> <<>>]

\* The buffers and the two slices PadLastBlock returns: the filler and the
\* copies write the last block, nothing else is written.
MemAfterPadLastBlock(p, data, rnd) ==
    LET parts == PadLastBlockResult(p, data, rnd)
        given == [b \in Buffers |-> IF b = "data" THEN data ELSE <<>>]
    IN  IF parts.panic # NoPanic
        THEN [heap |-> given, slices |-> <<>>, wrote |-> <<>>]
        ELSE [heap |-> [given EXCEPT ![LastBlockBuffer] = parts.last],
              slices |-> <<Slice(FullBlockBuffer, Len(parts.full)),
                           Slice(LastBlockBuffer, p.blockSize)>>,
              wrote |-> <<>>]

\* The buffers and the slice Pad returns: Concat appends the two slices of
\* PadLastBlock to its new buffer.
MemAfterPad(p, data, rnd) ==
    LET m == MemAfterPadLastBlock(p, data, rnd)
    IN  IF m.slices = <<>> THEN m
        ELSE LET all == Concat(SliceBytes(m.heap, m.slices[1]), SliceBytes(m.heap, m.slices[2]))
             IN  [heap |-> [m.heap EXCEPT ![ConcatBuffer] = all],
                  slices |-> <<Slice(ConcatBuffer, Len(all))>>,
                  wrote |-> <<>>]

\* No fill function is called.
NoFill == [pc |-> "none", s |-> <<>>, v |-> 0, fn |-> "", result |-> <<>>]

\* getFillByte is not called.
NoRetry ==
    [pc |-> "none", blockSize |-> 0, lastData |-> <<>>, lastBlockDataLen |-> 0,
     result |-> 0, draws |-> 0, tick |-> 0, lastBlock |-> <<>>]

\* The goroutines that use the padder at the same time.
Goroutines == 1..MaxGoroutines

\* A goroutine that has not called anything yet.  ref names the buffer that
\* lastBlock refers to: the block the goroutine made, or 0 for pb.zeroBlock.
\* rd and wr are the memory cells <<buffer, index>> the call has read and
\* written.
IdleCall ==
    [pc |-> "idle", op |-> "none", data |-> <<>>, rnd |-> NoRandom, ref |-> -1,
     full |-> <<>>, last |-> <<>>, padded |-> <<>>, out |-> NoResult,
     name |-> "", rd |-> {}, wr |-> {}]

CallerInit ==
    /\ mem = NoMem
    /\ zeroBlock = <<>>
    /\ blocks = [g \in Goroutines |-> <<>>]
    /\ calls = [g \in Goroutines |-> IdleCall]
    /\ pb = NoPadder
    /\ newErr = NilErr
    /\ newArgs = NoArgs
    /\ clear = <<>>
    /\ padded = <<>>
    /\ src = NoPadder
    /\ lastParts = NoParts
    /\ tamper = NoTamper
    /\ padPanic = NoPanic
    /\ drawn = NoRandom
    /\ out = NoResult
    /\ pc = "start"

Init ==
    /\ CallerInit
    /\ fillCall = NoFill
    /\ retry = NoRetry

\* padder, err := NewBlockPadding(padAlgorithm, blockSize); a caller that
\* gets an error before it holds any buffer gives up.
NewBlockPadding(padAlgorithm, blockSize) ==
    LET r == NewBlockPaddingResult(padAlgorithm, blockSize)
    IN  /\ pc \in {"start", "padded"}
        /\ pb' = r.padder
        /\ newErr' = r.err
        /\ newArgs' = [padAlgorithm |-> padAlgorithm, blockSize |-> blockSize]
        /\ zeroBlock' = IF r.err = NilErr THEN MakeBytes(blockSize) ELSE <<>>
        /\ pc' = IF r.err # NilErr THEN "failed"
                 ELSE IF pc = "start" THEN "ready" ELSE pc
        /\ UNCHANGED <<clear, padded, src, lastParts, tamper, padPanic, drawn, out,
                       blocks, calls, mem, fillCall, retry>>

\* padded := pb.Pad(data)
Pad(data, rnd) ==
    LET lens == padLengths(Len(data), pb.blockSize)
        r == PadResult(pb, data, rnd)
    IN  /\ pc = "ready"
        /\ DrawsSuffice(pb.worker, From(data, lens[1]), lens[2], rnd)
        /\ clear' = data
        /\ padded' = r.data
        /\ padPanic' = r.panic
        /\ drawn' = rnd
        /\ src' = pb
        /\ mem' = MemAfterPad(pb, data, rnd)
        /\ pc' = IF r.panic # NoPanic THEN "panicked" ELSE "padded"
        /\ UNCHANGED <<pb, newErr, newArgs, lastParts, tamper, out,
                       zeroBlock, blocks, calls, fillCall, retry>>

\* full, last := pb.PadLastBlock(data)
PadLastBlock(data, rnd) ==
    LET lens == padLengths(Len(data), pb.blockSize)
        r == PadLastBlockResult(pb, data, rnd)
    IN  /\ pc = "ready"
        /\ DrawsSuffice(pb.worker, From(data, lens[1]), lens[2], rnd)
        /\ clear' = data
        /\ lastParts' = [full |-> r.full, last |-> r.last]
        /\ padPanic' = r.panic
        /\ drawn' = rnd
        /\ src' = pb
        /\ mem' = MemAfterPadLastBlock(pb, data, rnd)
        /\ pc' = IF r.panic # NoPanic THEN "panicked" ELSE "split"
        /\ UNCHANGED <<pb, newErr, newArgs, padded, tamper, out,
                       zeroBlock, blocks, calls, fillCall, retry>>

\* Somebody replaces the byte with Go index index of the padded buffer by v.
Tamper(index, v) ==
    /\ pc = "padded"
    /\ InRange(padded, index)
    /\ At(padded, index) # v
    /\ tamper' = [index |-> index, old |-> At(padded, index), new |-> v]
    /\ padded' = [padded EXCEPT ![index + 1] = v]
    /\ mem' = SliceStore(mem, 1, index, v)
    /\ pc' = "tampered"
    /\ UNCHANGED <<pb, newErr, newArgs, clear, src, lastParts, padPanic, drawn, out,
                       zeroBlock, blocks, calls, fillCall, retry>>

\* The caller stores a byte through one of the two slices PadLastBlock
\* returned: slice[index] = v.
WriteSlice(k, index, v) ==
    /\ pc = "split"
    /\ k \in DOMAIN mem.slices
    /\ index \in 0..(mem.slices[k].len - 1)
    /\ At(SliceBytes(mem.heap, mem.slices[k]), index) # v
    /\ mem' = SliceStore(mem, k, index, v)
    /\ pc' = "written"
    /\ UNCHANGED <<pb, newErr, newArgs, clear, padded, src, lastParts, tamper, padPanic,
                   drawn, out, zeroBlock, blocks, calls, fillCall, retry>>

\* The caller gets a buffer that no padder of his produced.
Receive(buf) ==
    /\ pc = "ready"
    /\ padded' = buf
    /\ pc' = "received"
    /\ UNCHANGED <<pb, newErr, newArgs, clear, src, lastParts, tamper, padPanic, drawn, out,
                       zeroBlock, blocks, calls, mem, fillCall, retry>>

\* data, err := pb.Unpad(padded)
Unpad ==
    /\ pc \in {"padded", "tampered", "received"}
    /\ out' = UnpadResult(pb, padded)
    /\ pc' = "unpadded"
    /\ UNCHANGED <<pb, newErr, newArgs, clear, padded, src, lastParts, tamper, padPanic, drawn,
                       zeroBlock, blocks, calls, mem, fillCall, retry>>

\* otherPadder, err = NewBlockPadding(otherPadAlgorithm, blockSize)
\* _, err = otherPadder.Unpad(paddedData)
\* A padder of another scheme and the same block size unpads what Pad returned.
CrossUnpad(otherPadAlgorithm) ==
    LET r == NewBlockPaddingResult(otherPadAlgorithm, src.blockSize)
    IN  /\ pc = "padded"
        /\ pb = src
        /\ otherPadAlgorithm # src.worker
        /\ r.err = NilErr
        /\ pb' = r.padder
        /\ newErr' = r.err
        /\ newArgs' = [padAlgorithm |-> otherPadAlgorithm, blockSize |-> src.blockSize]
        /\ zeroBlock' = MakeBytes(src.blockSize)
        /\ out' = UnpadResult(r.padder, padded)
        /\ pc' = "crossed"
        /\ UNCHANGED <<clear, padded, src, lastParts, tamper, padPanic, drawn,
                       blocks, calls, mem, fillCall, retry>>

\* The Go indices of the padding Pad appended to the clear data.
PaddingRegion == Len(clear)..(Len(padded) - 1)

\* The padding operations are run with the block sizes up to MaxBlockSize.
Runnable == pc = "ready" /\ pb.blockSize <= MaxBlockSize

Next ==
    \/ \E padAlgorithm \in PadAlgorithms, blockSize \in BlockSizes :
          pc = "start" /\ NewBlockPadding(padAlgorithm, blockSize)
    \/ /\ Runnable
       /\ \E data \in SeqsOf(ByteVals, 0, MaxDataLen), rnd \in RandomFor(pb, RandVals) :
             Pad(data, rnd)
    \/ /\ Runnable
       /\ \E data \in SeqsOf(ByteVals, 0, MaxDataLen), rnd \in RandomFor(pb, RandVals) :
             PadLastBlock(data, rnd)
    \/ \E index \in PaddingRegion, v \in ByteVals : Tamper(index, v)
    \/ \E k \in 1..2, index \in 0..(MaxDataLen - 1) : WriteSlice(k, index, MaxUint8)
    \/ \E otherPadAlgorithm \in 0..maxAlgorithm : CrossUnpad(otherPadAlgorithm)
    \/ /\ Runnable
       /\ \E buf \in SeqsOf(ByteVals, 0, MaxBufLen) : Receive(buf)
    \/ Unpad

Spec == Init /\ [][Next]_vars

----------------------------------------------------------------------------
(* The cross test: data padded by one padder is unpadded by another        *)
(* (TestPadCrossUnpad in blockpad_test.go).                                *)

testBlockSize == 16
fixedDataLen == testBlockSize + 1

\* The byte values of the cross test: zero, the pad length of the test and
\* its neighbours, the marker and 0xff.
CrossVals == {0, 1, fixedDataLen - 3, fixedDataLen - 2, 128, MaxUint8}

\* Clear data of fixedDataLen bytes: all data with any of the values as its
\* last byte and as the last byte of its first block.
CrossData ==
    {[i \in 1..fixedDataLen |->
         IF i = fixedDataLen THEN y ELSE IF i = testBlockSize THEN x ELSE 77] :
     x \in CrossVals, y \in CrossVals}

\* Blocks crypto/rand may deliver: the blocks of one value, and the block
\* that counts upwards.
CrossBlocks ==
    {[i \in 1..testBlockSize |-> v] : v \in CrossVals}
        \cup {[i \in 1..testBlockSize |-> i - 1]}

CrossRandom ==
    IF pb.worker = ISO10126
    THEN {[crypto |-> c, mr |-> <<>>] : c \in CrossBlocks}
    ELSE IF pb.worker = ArbitraryTailByte
    THEN {[crypto |-> <<>>, mr |-> m] : m \in SeqsOf(CrossVals, 1, MaxDraws)}
    ELSE {NoRandom}

CrossNext ==
    \/ \E padAlgorithm \in 0..maxAlgorithm : NewBlockPadding(padAlgorithm, testBlockSize)
    \/ /\ pc = "ready"
       /\ \E data \in CrossData, rnd \in CrossRandom : Pad(data, rnd)
    \/ Unpad

SpecCross == Init /\ [][CrossNext]_vars

----------------------------------------------------------------------------
(* The fill functions of slicehelper on slices of their own (TestFill in   *)
(* slice_helper_test.go).                                                  *)

FillVals == {0, 170}

\* The slices to fill: every slice of up to MaxFillVaried bytes, and zeroed
\* slices of up to MaxFillLen bytes.
FillSlices ==
    SeqsOf(FillVals, 0, MaxFillVaried) \cup {MakeBytes(n) : n \in 0..MaxFillLen}

FillInit ==
    /\ CallerInit
    /\ retry = NoRetry
    /\ fillCall \in {[pc |-> "start", s |-> s, v |-> v, fn |-> "", result |-> <<>>] :
                         s \in FillSlices, v \in FillVals \cup {1}}

\* The call of a fill function: fn(s, v) leaves result in s.
Filling(fn, result) ==
    /\ fillCall.pc = "start"
    /\ fillCall' = [fillCall EXCEPT !.pc = "done", !.fn = fn, !.result = result]
    /\ UNCHANGED <<caller, retry>>

\* slicehelper.Fill(s, v)
CallFill == Filling("Fill", Fill(fillCall.s, fillCall.v))

\* slicehelper.SimpleFill(s, v)
CallSimpleFill == Filling("SimpleFill", SimpleFill(fillCall.s, fillCall.v))

\* slicehelper.PowerFill(s, v)
CallPowerFill == Filling("PowerFill", PowerFill(fillCall.s, fillCall.v))

\* slicehelper.Fill(s, v) in the version with the length threshold
CallFillByLength == Filling("FillByLength", FillByLength(fillCall.s, fillCall.v))

FillNext ==
    \/ CallFill
    \/ CallSimpleFill
    \/ CallPowerFill
    \/ CallFillByLength

SpecFill == FillInit /\ [][FillNext]_vars

----------------------------------------------------------------------------
(* arbitraryTailByteFiller draw by draw: getFillByte and the loop of       *)
(* anythingBut, one math/rand draw per step.                               *)

\* The values mrand.Int31n(256) delivers.
DrawVals == ByteVals \cup RandVals

\* The filler is called with the data of a last block.
DrawInit ==
    /\ CallerInit
    /\ fillCall = NoFill
    /\ retry \in {[pc |-> "called", blockSize |-> B, lastData |-> d, lastBlockDataLen |-> Len(d),
                    result |-> 0, draws |-> 0, tick |-> 0, lastBlock |-> <<>>] :
                       B \in 1..MaxBlockSize, d \in SeqsOf(ByteVals, 0, MaxBlockSize - 1)}
    /\ retry.lastBlockDataLen < retry.blockSize

\* The byte anythingBut must not return.
NotThisByte == At(retry.lastData, retry.lastBlockDataLen - 1)

\* One more draw is counted, up to MaxDraws + 1; tick changes with every
\* draw, as the state of the generator does.
Counted(draws) == IF draws <= MaxDraws THEN draws + 1 ELSE draws

\* getFillByte: if lastBlockDataLen != 0 { anythingBut(...) } else { one draw }
EnterGetFillByte ==
    /\ retry.pc = "called"
    /\ retry' = [retry EXCEPT !.pc = IF retry.lastBlockDataLen # 0 THEN "loop" ELSE "any"]
    /\ UNCHANGED <<caller, fillCall>>

\* result = byte(mrand.Int31n(256)) for a last block of padding only
DrawAny(v) ==
    /\ retry.pc = "any"
    /\ retry' = [retry EXCEPT !.pc = "drawn", !.result = Byte(v), !.draws = Counted(@),
                              !.tick = 1 - @]
    /\ UNCHANGED <<caller, fillCall>>

\* One pass of the loop of anythingBut: a draw and the test that ends the loop.
Draw(v) ==
    /\ retry.pc = "loop"
    /\ retry' = [retry EXCEPT !.pc = IF anythingButBreaks(Byte(v), NotThisByte)
                                      THEN "drawn" ELSE "loop",
                              !.result = Byte(v),
                              !.draws = Counted(@),
                              !.tick = 1 - @]
    /\ UNCHANGED <<caller, fillCall>>

\* slicehelper.Fill(lastBlock, fillByte), and PadLastBlock copies the data.
FillLastBlock ==
    /\ retry.pc = "drawn"
    /\ retry' = [retry EXCEPT !.pc = "done",
                              !.lastBlock = Copy(Fill(MakeBytes(retry.blockSize), retry.result),
                                                 retry.lastData)]
    /\ UNCHANGED <<caller, fillCall>>

DrawNext ==
    \/ EnterGetFillByte
    \/ \E v \in DrawVals : DrawAny(v)
    \/ \E v \in DrawVals : Draw(v)
    \/ FillLastBlock

\* The statements of the call run on, and the random source is fair: it
\* delivers every value again and again.
DrawFairness ==
    /\ WF_vars(EnterGetFillByte)
    /\ WF_vars(\E v \in DrawVals : DrawAny(v))
    /\ \A v \in DrawVals : WF_vars(Draw(v))
    /\ WF_vars(FillLastBlock)

SpecDraw == DrawInit /\ [][DrawNext]_vars /\ DrawFairness

----------------------------------------------------------------------------
(* Goroutines that share one padder (TestPadAllParallel in                 *)
(* blockpad_test.go).  Each goroutine runs one Pad or PadLastBlock call,   *)
(* statement by statement, and then Unpad on what Pad returned.            *)

\* The part of the state that belongs to the sequential caller.
sequential == <<clear, padded, src, lastParts, tamper, padPanic, drawn, mem, out>>

\* The data the goroutines pad: none, a zero byte, two bytes.
ConcData == {<<>>, <<0>>, <<2, 1>>}

\* The block sizes of the shared padder.
ConcBlockSizes == {1, 2}

\* What the random sources deliver to a goroutine.
ConcRandom ==
    IF pb.worker = ISO10126
    THEN {[crypto |-> [i \in 1..pb.blockSize |-> v], mr |-> <<>>] : v \in {0, MaxUint8}}
    ELSE IF pb.worker = ArbitraryTailByte
    THEN {[crypto |-> <<>>, mr |-> <<v>>] : v \in {0, MaxUint8}}
    ELSE {NoRandom}

\* The bytes of the buffer a reference names.
Load(ref) == IF ref = 0 THEN zeroBlock ELSE blocks[ref]

\* The cells of buffer ref with the Go indices lo..hi.
Cells(ref, lo, hi) == {<<ref, i>> : i \in lo..hi}

\* A variant of lastBlock := make(...) that takes the zero block of the
\* padder for the last block instead of making one.
NewLastBlock_shared(g) == 0

\* lastBlock := make([]byte, blockSize): a buffer of the goroutine's own.
NewLastBlock(g) == g

\* The cells of the last block the filler of a scheme writes.
FillerWrites(padAlgorithm, ref, blockSize, lastBlockDataLen) ==
    CASE padAlgorithm = Zero -> {}
      [] padAlgorithm = X923 -> {<<ref, blockSize - 1>>}
      [] padAlgorithm = ISO78164 -> {<<ref, lastBlockDataLen>>}
      [] OTHER -> Cells(ref, 0, blockSize - 1)

\* The goroutine calls Pad or PadLastBlock with its own data.
GoCall(g, op, data, rnd) ==
    LET lens == padLengths(Len(data), pb.blockSize)
    IN  /\ pc = "ready" /\ calls[g].pc = "idle"
        /\ DrawsSuffice(pb.worker, From(data, lens[1]), lens[2], rnd)
        /\ calls' = [calls EXCEPT ![g] = [@ EXCEPT !.pc = "called", !.op = op,
                                                    !.data = data, !.rnd = rnd]]
        /\ UNCHANGED <<pb, newErr, newArgs, pc, sequential, zeroBlock, blocks, fillCall, retry>>

\* lastBlock := make([]byte, blockSize)
GoMake(g) ==
    LET ref == NewLastBlock(g)
    IN  /\ calls[g].pc = "called"
        /\ blocks' = IF ref = g THEN [blocks EXCEPT ![g] = MakeBytes(pb.blockSize)] ELSE blocks
        /\ calls' = [calls EXCEPT ![g] =
              [@ EXCEPT !.pc = "made", !.ref = ref,
                        !.wr = IF ref = g THEN Cells(g, 0, pb.blockSize - 1) ELSE {}]]
        /\ UNCHANGED <<pb, newErr, newArgs, pc, sequential, zeroBlock, fillCall, retry>>

\* The goroutine stores v in the buffer its lastBlock refers to.
Store(g, v) ==
    /\ zeroBlock' = IF calls[g].ref = 0 THEN v ELSE zeroBlock
    /\ blocks' = IF calls[g].ref = 0 THEN blocks ELSE [blocks EXCEPT ![calls[g].ref] = v]

\* copy(lastBlock, pb.zeroBlock[:padLen])
GoZero(g) ==
    LET c == calls[g]
        padLen == padLengths(Len(c.data), pb.blockSize)[3]
    IN  /\ c.pc = "made"
        /\ Store(g, Copy(Load(c.ref), Prefix(zeroBlock, padLen)))
        /\ calls' = [calls EXCEPT ![g] =
              [@ EXCEPT !.pc = "zeroed",
                        !.rd = @ \cup Cells(0, 0, padLen - 1),
                        !.wr = @ \cup Cells(c.ref, 0, padLen - 1)]]
        /\ UNCHANGED <<pb, newErr, newArgs, pc, sequential, fillCall, retry>>

\* A variant of the filler call that hands the zero block of the padder to
\* the filler instead of the last block.
GoFill_zeroBlock(g) ==
    LET c == calls[g]
        lens == padLengths(Len(c.data), pb.blockSize)
        lastData == From(c.data, lens[1])
        f == filler(pb.worker, zeroBlock, pb.blockSize, lastData, lens[2], lens[3], c.rnd)
    IN  /\ c.pc = "zeroed"
        /\ IF f.panic # NoPanic
           THEN /\ calls' = [calls EXCEPT ![g] = [@ EXCEPT !.pc = "panicked"]]
                /\ UNCHANGED <<zeroBlock, blocks>>
           ELSE /\ zeroBlock' = f.block
                /\ blocks' = blocks
                /\ calls' = [calls EXCEPT ![g] =
                      [@ EXCEPT !.pc = "filled",
                                !.wr = @ \cup FillerWrites(pb.worker, 0, pb.blockSize, lens[2])]]
        /\ UNCHANGED <<pb, newErr, newArgs, pc, sequential, fillCall, retry>>

\* pb.worker.filler(lastBlock, blockSize, lastData, lastBlockDataLen, padLen)
GoFill(g) ==
    LET c == calls[g]
        lens == padLengths(Len(c.data), pb.blockSize)
        lastData == From(c.data, lens[1])
        f == filler(pb.worker, Load(c.ref), pb.blockSize, lastData, lens[2], lens[3], c.rnd)
    IN  /\ c.pc = "zeroed"
        /\ IF f.panic # NoPanic
           THEN /\ calls' = [calls EXCEPT ![g] = [@ EXCEPT !.pc = "panicked"]]
                /\ UNCHANGED <<zeroBlock, blocks>>
           ELSE /\ Store(g, f.block)
                /\ calls' = [calls EXCEPT ![g] =
                      [@ EXCEPT !.pc = "filled",
                                !.wr = @ \cup FillerWrites(pb.worker, c.ref, pb.blockSize, lens[2])]]
        /\ UNCHANGED <<pb, newErr, newArgs, pc, sequential, fillCall, retry>>

\* copy(lastBlock, lastData[:lastBlockDataLen]);
\* return data[:fullBlockDataLen], lastBlock
GoCopyData(g) ==
    LET c == calls[g]
        lens == padLengths(Len(c.data), pb.blockSize)
        lastData == From(c.data, lens[1])
        block == Copy(Load(c.ref), Prefix(lastData, lens[2]))
    IN  /\ c.pc = "filled"
        /\ Store(g, block)
        /\ calls' = [calls EXCEPT ![g] =
              [@ EXCEPT !.pc = "split", !.full = Prefix(c.data, lens[1]), !.last = block,
                        !.wr = @ \cup Cells(c.ref, 0, lens[2] - 1)]]
        /\ UNCHANGED <<pb, newErr, newArgs, pc, sequential, fillCall, retry>>

\* return slicehelper.Concat(fullBlockData, lastBlock), in Pad
GoConcat(g) ==
    LET c == calls[g]
    IN  /\ c.pc = "split" /\ c.op = "Pad"
        /\ calls' = [calls EXCEPT ![g] =
              [@ EXCEPT !.pc = "padded", !.padded = Concat(c.full, Load(c.ref)),
                        !.rd = @ \cup Cells(c.ref, 0, pb.blockSize - 1)]]
        /\ UNCHANGED <<pb, newErr, newArgs, pc, sequential, zeroBlock, blocks, fillCall, retry>>

\* The goroutine unpads what its Pad call returned.
GoUnpad(g) ==
    LET c == calls[g]
    IN  /\ c.pc = "padded"
        /\ calls' = [calls EXCEPT ![g] =
              [@ EXCEPT !.pc = "unpadded", !.out = UnpadResult(pb, c.padded)]]
        /\ UNCHANGED <<pb, newErr, newArgs, pc, sequential, zeroBlock, blocks, fillCall, retry>>

\* The goroutine asks the padder for its name: return pb.worker.name
GoString(g) ==
    /\ pc = "ready" /\ calls[g].pc = "idle"
    /\ calls' = [calls EXCEPT ![g] =
          [@ EXCEPT !.pc = "named", !.name = padImplementationNames[pb.worker + 1]]]
    /\ UNCHANGED <<pb, newErr, newArgs, pc, sequential, zeroBlock, blocks, fillCall, retry>>

ConcNext ==
    \/ \E padAlgorithm \in 0..maxAlgorithm, blockSize \in ConcBlockSizes :
          pc = "start" /\ NewBlockPadding(padAlgorithm, blockSize)
    \/ \E g \in Goroutines, op \in {"Pad", "PadLastBlock"}, data \in ConcData :
          pc = "ready" /\ \E rnd \in ConcRandom : GoCall(g, op, data, rnd)
    \/ \E g \in Goroutines : GoMake(g)
    \/ \E g \in Goroutines : GoZero(g)
    \/ \E g \in Goroutines : GoFill(g)
    \/ \E g \in Goroutines : GoCopyData(g)
    \/ \E g \in Goroutines : GoConcat(g)
    \/ \E g \in Goroutines : GoUnpad(g)
    \/ \E g \in Goroutines : GoString(g)

SpecConc == Init /\ [][ConcNext]_vars

----------------------------------------------------------------------------
(* Properties *)

\* The last Unpad call returned a slice and no error.
Succeeded == out.panic = NoPanic /\ out.err = NilErr /\ ~out.isNil

\* The buffer is what the current padder's Pad returned, untouched.
OwnBuffer == src # NoPadder /\ src = pb /\ tamper = NoTamper

EndsInZero(data) == Len(data) > 0 /\ data[Len(data)] = 0

\* C1: round trip.  For every scheme and block size and all data (for Zero:
\* data not ending in a zero byte) Pad returns, and Unpad of what it
\* returned gives no error and the data itself.
RoundTrip ==
    (src # NoPadder /\ (src.worker = Zero => ~EndsInZero(clear))) =>
        /\ pc # "panicked"
        /\ (pc = "unpadded" /\ OwnBuffer) => (Succeeded /\ out.data = clear)

\* A round trip of non-empty block-aligned data, which got a block of padding.
RoundTripWitness ==
    /\ pc = "unpadded" /\ OwnBuffer
    /\ pb.blockSize > 1
    /\ Len(clear) = pb.blockSize
    /\ Succeeded /\ out.data = clear

\* The round trip of empty data.
RoundTripEmptyWitness ==
    /\ pc = "unpadded" /\ OwnBuffer
    /\ clear = <<>> /\ Len(padded) = pb.blockSize
    /\ Succeeded /\ out.data = <<>>

\* C2: length invariant.  Pad appends p = B - (len(D) mod B) bytes, p is in
\* 1..B, and the result's length is a positive multiple of B.
LengthInvariant ==
    (pc = "padded") =>
        LET B == src.blockSize
            p == B - (Len(clear) % B)
        IN  /\ p \in 1..B
            /\ Len(padded) = Len(clear) + p
            /\ Len(padded) > 0
            /\ Len(padded) % B = 0
            /\ (Len(clear) % B = 0 => Len(padded) = Len(clear) + B)
            /\ (clear = <<>> => Len(padded) = B)

\* Non-empty block-aligned data got a whole block of padding.
LengthInvariantWitness ==
    /\ pc = "padded"
    /\ Len(clear) > 0 /\ Len(clear) % src.blockSize = 0
    /\ Len(padded) = Len(clear) + src.blockSize

\* The last Unpad call returned nil and ErrInvalidPadding.
InvalidPadding == out.panic = NoPanic /\ out.err = ErrInvalidPadding /\ out.isNil

\* The schemes whose padding bytes are all determined by the pad length.
CorruptionSchemes == {PKCS7, X923, RFC4303, ISO78164}

\* Unpad ran on a Pad result of one of these schemes in which one byte of
\* the padding has been replaced by another value.
UnpaddedTampered ==
    /\ pc = "unpadded" /\ tamper # NoTamper /\ src = pb
    /\ src.worker \in CorruptionSchemes
    /\ tamper.index \in PaddingRegion

\* C3 as stated, for its three schemes with a length byte: replacing any
\* single byte of the padding of PKCS7, X923 or RFC4303 by a different value
\* (the final byte included) makes Unpad return the invalid-padding error.
CorruptionAlwaysDetected ==
    (UnpaddedTampered /\ src.worker # ISO78164) => InvalidPadding

\* C3, amended: Unpad returns the invalid-padding error when a padding byte
\* other than the final length byte is replaced (PKCS7, X923, RFC4303), when
\* the 0x80 marker is replaced by a non-zero value, and when a zero padding
\* byte is replaced by a value other than 0x80 (ISO78164).  Whatever byte of
\* the padding is replaced, Unpad never returns the original data.
CorruptionDetected ==
    UnpaddedTampered =>
        LET finalIndex == Len(padded) - 1
            markerIndex == Len(clear)
        IN  /\ (src.worker # ISO78164 /\ tamper.index # finalIndex) => InvalidPadding
            /\ (src.worker = ISO78164 /\ tamper.index = markerIndex /\ tamper.new # 0)
                   => InvalidPadding
            /\ (src.worker = ISO78164 /\ tamper.index # markerIndex /\ tamper.new # 128)
                   => InvalidPadding
            /\ ~(Succeeded /\ out.data = clear)

\* A filler byte in the middle of a PKCS7 padding was replaced and Unpad
\* returned the error.
CorruptionDetectedWitness ==
    /\ UnpaddedTampered
    /\ src.worker = PKCS7
    /\ Len(padded) - Len(clear) >= 3
    /\ tamper.index = Len(clear) + 1
    /\ InvalidPadding

\* C4 as stated: under Zero, Pad and PadLastBlock of non-empty data whose
\* last byte is 0x00 panic with "... must not be 0" and return nothing,
\* whatever the length of the data.
ZeroPaddingPanics ==
    (pc \in {"padded", "split", "panicked"} /\ src.worker = Zero /\ EndsInZero(clear)) =>
        /\ pc = "panicked"
        /\ padPanic = ZeroPanicMsg
        /\ padded = <<>> /\ lastParts = NoParts

\* The Go indices of the last block of the buffer.
LastBlock == (Len(padded) - pb.blockSize)..(Len(padded) - 1)

\* Unpad ran on a buffer whose length is a positive multiple of the block size.
UnpaddedAligned ==
    pc = "unpadded" /\ Len(padded) > 0 /\ Len(padded) % pb.blockSize = 0

\* C5 as stated: for every scheme and every buffer whose length is a positive
\* multiple of the block size, Unpad reads every byte of the last block.
RemoversReadWholeLastBlock ==
    UnpaddedAligned => LastBlock \subseteq out.reads

\* C6 as stated: when Unpad returns the invalid-padding error for a
\* block-aligned buffer, every byte of the last block has been read.
ErrorOnlyAfterScan ==
    (UnpaddedAligned /\ out.err = ErrInvalidPadding) => LastBlock \subseteq out.reads

\* C7: malformed length.  For every scheme, Unpad of a buffer whose length is
\* no multiple of the block size returns nil and ErrInvalidPaddedDataLen,
\* reads no byte and does not panic.
MalformedLengthRejected ==
    (pc = "unpadded" /\ Len(padded) % pb.blockSize # 0) =>
        /\ out.isNil
        /\ out.err = ErrInvalidPaddedDataLen
        /\ out.reads = {}
        /\ out.panic = NoPanic

\* The arbitrary tail byte padder rejected a buffer of a wrong length.
MalformedLengthWitness ==
    /\ pc = "unpadded"
    /\ pb.worker = ArbitraryTailByte
    /\ Len(padded) > pb.blockSize /\ Len(padded) % pb.blockSize # 0
    /\ out.err = ErrInvalidPaddedDataLen

\* The Go indices of the last block whose bytes differ from the final byte.
DifferingFromFinal == {i \in LastBlock : At(padded, i) # At(padded, Len(padded) - 1)}

Max(S) == CHOOSE x \in S : \A y \in S : y <= x

\* C8: for every buffer whose length is a positive multiple of the block
\* size, ArbitraryTailByte Unpad returns no error and the prefix that ends
\* just after the last byte of the last block that differs from the final
\* byte, or at the start of the last block when no byte of it differs.
ArbitraryTailByteNeverFails ==
    (UnpaddedAligned /\ pb.worker = ArbitraryTailByte) =>
        /\ Succeeded
        /\ out.data = IF DifferingFromFinal = {}
                      THEN Prefix(padded, Len(padded) - pb.blockSize)
                      ELSE Prefix(padded, Max(DifferingFromFinal) + 1)

\* A received buffer of two blocks whose last block holds a byte that differs
\* from the final byte: Unpad returned the bytes up to it.
ArbitraryTailByteWitness ==
    /\ UnpaddedAligned /\ pb.worker = ArbitraryTailByte
    /\ src = NoPadder
    /\ pb.blockSize = 2 /\ Len(padded) = 2 * pb.blockSize
    /\ Len(out.data) = Len(padded) - 1
    /\ Succeeded

\* The pairs of schemes TestPadCrossUnpad leaves out.
CrossExempt(a, b) ==
    \/ a = b
    \/ a = ArbitraryTailByte \/ b = ArbitraryTailByte
    \/ (a \in {PKCS7, X923, RFC4303} /\ b = ISO10126)
    \/ (a = ISO78164 /\ b = Zero)

\* Unpad ran on what a padder of another scheme returned for the clear data.
CrossUnpadded ==
    /\ pc = "unpadded" /\ src # NoPadder /\ tamper = NoTamper
    /\ ~CrossExempt(src.worker, pb.worker)
    /\ (src.worker = Zero => ~EndsInZero(clear))

PaddedBy(b) == PadResult([worker |-> b, blockSize |-> src.blockSize], clear, NoRandom).data

\* The padded data happens to be a valid padding of the other scheme: data
\* that ends in 0x80 under Zero is ISO78164 padding of the data before it,
\* and the random bytes of ISO10126 may be those of PKCS7, X923 or RFC4303.
CrossCoincidence ==
    \/ /\ src.worker = Zero /\ pb.worker = ISO78164
       /\ clear[Len(clear)] = 128
    \/ /\ src.worker = ISO10126 /\ pb.worker \in {PKCS7, X923, RFC4303}
       /\ padded = PaddedBy(pb.worker)

Registered == 0..(Len(padImplementationNames) - 1)

\* C10: NewBlockPadding returns a padder and no error iff the block size is
\* in 1..255 and the scheme is an ordinal of the table; a block size outside
\* 1..255 gives ErrInvalidBlockSize, an unregistered scheme with a valid
\* block size ErrInvalidPadAlgorithm, and an error comes with no padder.
ConstructionValidated ==
    (newArgs # NoArgs) =>
        LET a == newArgs.padAlgorithm
            B == newArgs.blockSize
        IN  /\ (pb # NoPadder /\ newErr = NilErr) <=> (B \in 1..255 /\ a \in Registered)
            /\ (pb # NoPadder) => (pb.worker = a /\ pb.blockSize = B)
            /\ (B < 1 \/ B > 255) => (pb = NoPadder /\ newErr = ErrInvalidBlockSize)
            /\ (B \in 1..255 /\ a \notin Registered)
                   => (pb = NoPadder /\ newErr = ErrInvalidPadAlgorithm)
            /\ (newErr # NilErr) => pb = NoPadder

\* The largest block size with the first unregistered ordinal was refused.
ConstructionWitness ==
    /\ pc = "failed"
    /\ newArgs = [padAlgorithm |-> maxAlgorithm + 1, blockSize |-> MaxUint8]
    /\ pb = NoPadder /\ newErr = ErrInvalidPadAlgorithm

\* C11: for every scheme and all data, what Pad returns is the first result
\* of PadLastBlock followed by its second result, the random sources
\* delivering the same bytes to both calls; one call panics iff the other does.
PadEqualsPadLastBlock ==
    /\ pc = "padded" =>
          LET parts == PadLastBlockResult(src, clear, drawn)
          IN  parts.panic = NoPanic /\ padded = parts.full \o parts.last
    /\ pc = "split" =>
          LET whole == PadResult(src, clear, drawn)
          IN  whole.panic = NoPanic /\ whole.data = lastParts.full \o lastParts.last
    /\ pc = "panicked" =>
          /\ PadResult(src, clear, drawn).panic = padPanic
          /\ PadLastBlockResult(src, clear, drawn).panic = padPanic

\* Pad returned four bytes for three bytes of data under ISO10126 with block
\* size 2: a full block of data and a last block with random padding.
PadEqualsPadLastBlockWitness ==
    /\ pc = "padded" /\ src.worker = ISO10126 /\ src.blockSize = 2
    /\ Len(clear) = 3 /\ Len(padded) = 4
    /\ drawn.crypto # <<>>

\* C12: for every scheme and all data D, the first result of PadLastBlock is
\* D[0 .. (len(D) / B) * B), the second result has B bytes, and its first
\* len(D) mod B bytes are the rest of D.
PadLastBlockShape ==
    (pc = "split") =>
        LET B == src.blockSize
            n == (Len(clear) \div B) * B
            r == Len(clear) % B
        IN  /\ lastParts.full = SubSeq(clear, 1, n)
            /\ Len(lastParts.full) % B = 0
            /\ Len(lastParts.last) = B
            /\ SubSeq(lastParts.last, 1, r) = SubSeq(clear, n + 1, Len(clear))

\* PadLastBlock split three bytes of data into a block of two bytes and a last
\* block that starts with the third byte.
PadLastBlockShapeWitness ==
    /\ pc = "split" /\ src.worker = PKCS7 /\ src.blockSize = 2
    /\ Len(clear) = 3
    /\ Len(lastParts.full) = 2
    /\ lastParts.last = <<clear[3], 1>>

\* The content failures of the schemes, as far as the last byte or the
\* absence of the marker decides them: a non-zero last byte for Zero, a
\* length byte of 0 or above the block size, no 0x80 in the last block.
ContentFailure ==
    LET last == At(padded, Len(padded) - 1)
    IN  \/ pb.worker = Zero /\ last # 0
        \/ pb.worker \in {PKCS7, X923, ISO10126, RFC4303}
              /\ (last = 0 \/ last > pb.blockSize)
        \/ pb.worker = ISO78164 /\ \A i \in LastBlock : At(padded, i) # 128

\* C13 as stated: a failing Unpad returns a nil slice and one of the two
\* errors, ErrInvalidPaddedDataLen exactly for a length that is no multiple
\* of the block size, and every content failure of every scheme gives
\* ErrInvalidPadding.
UnpadFailuresAreValues ==
    (pc = "unpadded") =>
        /\ out.panic = NoPanic
        /\ out.err \in {NilErr, ErrInvalidPaddedDataLen, ErrInvalidPadding}
        /\ (out.err # NilErr) => out.isNil
        /\ (out.err = ErrInvalidPaddedDataLen) <=> (Len(padded) % pb.blockSize # 0)
        /\ (UnpaddedAligned /\ ContentFailure) => out.err = ErrInvalidPadding

\* C14: goroutines share one BlockPad and call Pad, PadLastBlock and Unpad
\* on their own data.  Under every interleaving each call returns what it
\* returns when it runs alone, each goroutine gets its data back from Unpad,
\* no call writes a memory cell that another call reads or writes, and the
\* zero block of the padder stays zero.
ConcurrentCallsIsolated ==
    /\ \A g \in Goroutines :
          LET c == calls[g]
              alone == PadLastBlockResult(pb, c.data, c.rnd)
          IN  /\ c.pc = "panicked" => alone.panic = ZeroPanicMsg
              /\ c.pc \in {"split", "padded", "unpadded"} =>
                    /\ alone.panic = NoPanic
                    /\ c.full = alone.full /\ c.last = alone.last
              /\ c.pc \in {"padded", "unpadded"} => c.padded = alone.full \o alone.last
              /\ c.pc = "unpadded" =>
                    /\ c.out.panic = NoPanic /\ c.out.err = NilErr /\ ~c.out.isNil
                    /\ c.out.data = c.data
    /\ \A g, h \in Goroutines :
          g # h => calls[g].wr \cap (calls[h].rd \cup calls[h].wr) = {}
    /\ pb # NoPadder => zeroBlock = [i \in 1..pb.blockSize |-> 0]

\* Two goroutines have padded different data with one RFC4303 padder, both
\* read the zero block of the padder, and both got their data back.
ConcurrentCallsWitness ==
    /\ pb.worker = RFC4303 /\ pb.blockSize = 2
    /\ calls[1].pc = "unpadded" /\ calls[2].pc = "unpadded"
    /\ calls[1].data = <<0>> /\ calls[2].data = <<2, 1>>
    /\ <<0, 0>> \in calls[1].rd \cap calls[2].rd
    /\ calls[1].out.data = <<0>> /\ calls[2].out.data = <<2, 1>>

\* C15 as stated: construction with a valid block size succeeds for the
\* eight ordinals 0..7, the ordinal after ArbitraryTailByte included, and
\* the padder is bound to the table entry of that ordinal.
RegistryHoldsEight ==
    (/\ newArgs # NoArgs
     /\ newArgs.padAlgorithm \in 0..(ArbitraryTailByte + 1)
     /\ newArgs.blockSize \in 1..MaxUint8) =>
        /\ newErr = NilErr
        /\ pb # NoPadder
        /\ pb.worker = newArgs.padAlgorithm

\* Pad returned a buffer for the data at hand.
Padded == pc = "padded" /\ tamper = NoTamper /\ src # NoPadder

\* The number of bytes Pad adds to the clear data.
PadLen == src.blockSize - (Len(clear) % src.blockSize)

\* The bytes Pad added to the clear data.
Padding == SubSeq(padded, Len(clear) + 1, Len(padded))

\* C16: for Zero, PKCS7, X923 and ISO78164, Pad returns the data followed by
\* exactly p bytes: under Zero p zero bytes, under PKCS7 p bytes of value p,
\* under X923 p-1 zero bytes and one byte of value p, under ISO78164 one byte
\* 0x80 and p-1 zero bytes.
DeterministicLayouts ==
    (Padded /\ src.worker \in {Zero, PKCS7, X923, ISO78164}) =>
        LET p == PadLen
        IN  /\ Len(padded) = Len(clear) + p
            /\ SubSeq(padded, 1, Len(clear)) = clear
            /\ Padding =
                 CASE src.worker = Zero -> [k \in 1..p |-> 0]
                   [] src.worker = PKCS7 -> [k \in 1..p |-> p]
                   [] src.worker = X923 -> [k \in 1..p |-> IF k = p THEN p ELSE 0]
                   [] src.worker = ISO78164 -> [k \in 1..p |-> IF k = 1 THEN 128 ELSE 0]

\* X923 padded one byte of data to a block of three bytes with a zero byte
\* and the length 2.
DeterministicLayoutsWitness ==
    /\ Padded /\ src.worker = X923 /\ src.blockSize = 3
    /\ Len(clear) = 1
    /\ padded = <<clear[1], 0, 2>>

\* C17 as stated: under RFC4303 the p bytes Pad appends are, in buffer order
\* from the first padding byte to the last, p, p-1, ..., 1.
Rfc4303Descending ==
    (Padded /\ src.worker = RFC4303) =>
        Padding = [k \in 1..PadLen |-> PadLen - k + 1]

\* C17, amended: under RFC4303 Pad appends exactly p bytes whose values in
\* buffer order are 1, 2, ..., p; the last byte of the buffer is p.
Rfc4303Ascending ==
    (Padded /\ src.worker = RFC4303) =>
        /\ Len(padded) = Len(clear) + PadLen
        /\ SubSeq(padded, 1, Len(clear)) = clear
        /\ Padding = [k \in 1..PadLen |-> k]

\* RFC4303 padded one byte of data to a block of three bytes with 1, 2.
Rfc4303AscendingWitness ==
    /\ Padded /\ src.worker = RFC4303 /\ src.blockSize = 3
    /\ Len(clear) = 1
    /\ padded = <<clear[1], 1, 2>>

\* C18: under ArbitraryTailByte Pad returns the data followed by exactly p
\* bytes of one value v; v differs from the last byte of the data when the
\* last block holds data, and is the value drawn, whatever it is, when the
\* last block holds padding only.
ArbitraryTailByteLayout ==
    (Padded /\ src.worker = ArbitraryTailByte) =>
        LET v == padded[Len(padded)]
        IN  /\ Len(padded) = Len(clear) + PadLen
            /\ SubSeq(padded, 1, Len(clear)) = clear
            /\ Padding = [k \in 1..PadLen |-> v]
            /\ (Len(clear) % src.blockSize # 0) => v # clear[Len(clear)]
            /\ (Len(clear) % src.blockSize = 0) => v = drawn.mr[1]

\* Block-aligned data got a block of padding whose value is that of the last
\* data byte.
ArbitraryTailByteLayoutWitness ==
    /\ Padded /\ src.worker = ArbitraryTailByte /\ src.blockSize = 2
    /\ Len(clear) = 2
    /\ Padding = <<clear[2], clear[2]>>

\* Data that ends inside the last block got padding of a value that the second
\* draw delivered, the first draw being the last data byte.
ArbitraryTailByteLayoutRetryWitness ==
    /\ Padded /\ src.worker = ArbitraryTailByte /\ src.blockSize = 3
    /\ Len(clear) = 1 /\ Len(drawn.mr) = 2
    /\ drawn.mr[1] = clear[1]
    /\ Padding = <<drawn.mr[2], drawn.mr[2]>>

\* The Go indices of the last block that hold 0x80 with only zero bytes
\* behind them up to the end of the buffer: at most one.
Markers ==
    {i \in LastBlock :
        /\ At(padded, i) = 128
        /\ \A j \in (i + 1)..(Len(padded) - 1) : At(padded, j) = 0}

\* C19 as stated: for a buffer whose length is a positive multiple of the
\* block size, ISO78164 Unpad succeeds iff, scanning the last block backward,
\* every byte is zero until a 0x80 inside the last block; it then returns
\* the bytes before that marker.  A last block without such a marker gives
\* ErrInvalidPadding, and no byte before the last block is read.
Iso78164RemovalRule ==
    (UnpaddedAligned /\ pb.worker = ISO78164) =>
        /\ out.panic = NoPanic
        /\ (Markers # {}) => (Succeeded /\ \E i \in Markers : out.data = Prefix(padded, i))
        /\ (Markers = {}) => InvalidPadding
        /\ out.reads \subseteq LastBlock

\* The bytes before the length byte are what the scheme asks for.
LengthByteFillOk(p) ==
    LET n == Len(padded)
    IN  CASE pb.worker = PKCS7 -> \A k \in 1..(p - 1) : padded[n - k] = p
          [] pb.worker = X923 -> \A k \in 1..(p - 1) : padded[n - k] = 0
          [] pb.worker = RFC4303 -> \A k \in 1..(p - 1) : padded[n - k] = p - k
          [] pb.worker = ISO10126 -> TRUE

\* C20: for PKCS7, X923, ISO10126 and RFC4303 and a buffer whose length is a
\* positive multiple of the block size, with p the last byte, Unpad succeeds
\* iff p is in 1..B and the p-1 bytes before the last byte are all p
\* (PKCS7), all zero (X923), p-k at k positions before the last (RFC4303),
\* or anything (ISO10126).  It then returns the buffer without its last p
\* bytes, and else ErrInvalidPadding.
LengthByteRules ==
    (UnpaddedAligned /\ pb.worker \in {PKCS7, X923, ISO10126, RFC4303}) =>
        LET n == Len(padded)
            p == padded[n]
        IN  IF p \in 1..pb.blockSize /\ LengthByteFillOk(p)
            THEN Succeeded /\ out.data = SubSeq(padded, 1, n - p)
            ELSE InvalidPadding

\* The RFC4303 remover took the two bytes 1, 2 off a received buffer of two
\* blocks.
LengthByteRulesWitness ==
    /\ UnpaddedAligned /\ pb.worker = RFC4303 /\ pb.blockSize = 2
    /\ src = NoPadder
    /\ Len(padded) = 4 /\ padded[3] = 1 /\ padded[4] = 2
    /\ Succeeded /\ Len(out.data) = 2

\* The PKCS7 remover refused a received buffer whose length byte exceeds the
\* block size though as many bytes of that value end the buffer.
LengthByteTooLargeWitness ==
    /\ UnpaddedAligned /\ pb.worker = PKCS7 /\ pb.blockSize = 2
    /\ padded = <<3, 3, 3, 3>>
    /\ InvalidPadding

\* The Go indices of the last block that hold a non-zero byte.
NonZeroInLastBlock == {i \in LastBlock : At(padded, i) # 0}

\* C21: for a buffer whose length is a positive multiple of the block size,
\* Zero Unpad returns ErrInvalidPadding iff the last byte is non-zero; else
\* it returns the prefix that ends just after the last non-zero byte of the
\* last block, or at the start of the last block when that block is all
\* zero.
ZeroRemovalRule ==
    (UnpaddedAligned /\ pb.worker = Zero) =>
        IF At(padded, Len(padded) - 1) # 0
        THEN InvalidPadding
        ELSE /\ Succeeded
             /\ out.data = IF NonZeroInLastBlock = {}
                           THEN Prefix(padded, Len(padded) - pb.blockSize)
                           ELSE Prefix(padded, Max(NonZeroInLastBlock) + 1)

\* The last block of a received buffer of two blocks is all zero and the
\* block before it ends in a zero byte: Unpad returned the whole first block.
ZeroRemovalRuleWitness ==
    /\ UnpaddedAligned /\ pb.worker = Zero /\ pb.blockSize = 2
    /\ padded = <<1, 0, 0, 0>>
    /\ Succeeded /\ out.data = <<1, 0>>

\* C22 as stated: for every scheme and block size, a padding call does the
\* same work whatever the pad length: its two copies transfer B bytes in
\* all, and its filler writes as many bytes and draws as many random values
\* as in a call whose last block is padding only (p = B).
ConstantPadWork ==
    (pc \in {"padded", "split"}) =>
        LET work == PadLastBlockWork(src, clear, drawn)
            full == PadLastBlockWork(src, <<>>, drawn)
        IN  /\ work.copied = src.blockSize
            /\ work.writes = full.writes
            /\ work.draws = full.draws

\* C23: once a padder is constructed, no step of a Pad, PadLastBlock, Unpad
\* or String call changes it: its algorithm and block size keep their
\* values and its zero block keeps its bytes, all of them 0.
PadderImmutable ==
    [][(pb # NoPadder) =>
          /\ pb' = pb
          /\ zeroBlock' = zeroBlock
          /\ zeroBlock' = [i \in 1..pb.blockSize |-> 0]]_vars

\* One goroutine has padded and unpadded with a PKCS7 padder, whose filler
\* writes the whole last block, the other has asked for its name, and the
\* padder is what it was.
PadderImmutableWitness ==
    /\ pb = [worker |-> PKCS7, blockSize |-> 2]
    /\ calls[1].pc = "unpadded" /\ calls[1].data = <<0>>
    /\ calls[2].pc = "named" /\ calls[2].name = "PKCS#7"
    /\ zeroBlock = <<0, 0>>

\* C24: Pad and PadLastBlock leave the caller's data as it was.  The slice
\* Pad returns and the last block PadLastBlock returns are buffers of their
\* own: a byte stored through them does not change the data.  The first
\* slice PadLastBlock returns is the start of the caller's buffer itself: a
\* byte stored through it is a byte of the data.
CallerDataFrame ==
    /\ (pc \in {"padded", "split"}) =>
          /\ mem.heap["data"] = clear
          /\ \A k \in DOMAIN mem.slices : mem.slices[k].buf = "data" <=> (pc = "split" /\ k = 1)
    /\ (pc = "split") =>
          SliceBytes(mem.heap, mem.slices[1]) = Prefix(clear, Len(lastParts.full))
    /\ (pc = "tampered") =>
          /\ mem.heap["data"] = clear
          /\ SliceBytes(mem.heap, mem.slices[1]) = padded
    /\ (pc = "written") =>
          IF mem.wrote[1] = 1
          THEN mem.heap["data"] = [clear EXCEPT ![mem.wrote[2] + 1] = MaxUint8]
          ELSE mem.heap["data"] = clear /\ At(mem.heap["block"], mem.wrote[2]) = MaxUint8

CallerDataFrameWitness ==
    /\ pc = "written"
    /\ src = [worker |-> PKCS7, blockSize |-> 2]
    /\ clear = <<1, 2, 3>>
    /\ mem.wrote = <<1, 1>>
    /\ mem.heap["data"] = <<1, MaxUint8, 3>>
    /\ mem.heap["block"] = <<3, 1>>

\* C25 as stated: Unpad never panics.  For every scheme and every buffer,
\* the empty one and one with an all-zero last block included, Unpad gives
\* a slice or an error value and reads no index outside the buffer.
UnpadNeverPanics ==
    (pc = "unpadded") =>
        /\ out.panic = NoPanic
        /\ (out.err = NilErr) # out.isNil
        /\ \A i \in out.reads : InRange(padded, i)

\* C26 as stated: when Unpad succeeds on a buffer of length n, the result
\* is a prefix of the buffer and its length L satisfies n - B <= L <= n - 1:
\* a remover strips at least one byte and at most one block.
UnpadResultBounds ==
    (pc = "unpadded" /\ out.panic = NoPanic /\ out.err = NilErr) =>
        /\ out.data = Prefix(padded, Len(out.data))
        /\ Len(padded) - pb.blockSize <= Len(out.data)
        /\ Len(out.data) <= Len(padded) - 1

\* C27: the first len(D) bytes of Pad(D) are D.  What a filler writes below
\* index len(D) mod B of the last block is overwritten by the end of the
\* cleartext and is not in the output: the whole-block fill of PKCS7 and
\* ArbitraryTailByte, the random bytes of ISO10126 and the countdown of
\* RFC4303, which goes from 0 to 255 below the index B - 1 - p.  From that
\* index on the output holds the bytes of the filler.
CleartextPreserved ==
    (pc = "padded") =>
        LET B == src.blockSize
            p == padLengths(Len(clear), B)[3]
            block == FilledBlock(src, clear, drawn)
        IN  /\ Prefix(padded, Len(clear)) = clear
            /\ Len(padded) = Len(clear) + p
            /\ \A i \in (B - p)..(B - 1) : At(padded, Len(padded) - B + i) = At(block, i)
            /\ (src.worker = PKCS7) => \A i \in 0..(B - 1) : At(block, i) = p
            /\ (src.worker = ArbitraryTailByte) =>
                  \A i \in 0..(B - 1) : At(block, i) = At(padded, Len(padded) - 1)
            /\ (src.worker = ISO10126) =>
                  \A i \in 0..(B - 2) : At(block, i) = drawn.crypto[i + 1]
            /\ (src.worker = RFC4303) =>
                  \A i \in 0..(B - 1) : At(block, i) = (p - (B - 1 - i)) % (MaxUint8 + 1)

CleartextPreservedWitness ==
    /\ pc = "padded"
    /\ src = [worker |-> RFC4303, blockSize |-> 3]
    /\ clear = <<1, 2>>
    /\ padded = <<1, 2, 1>>
    /\ FilledBlock(src, clear, drawn) = <<MaxUint8, 0, 1>>

\* C28: what Pad returns under PKCS7, X923 or RFC4303 is unpadded by a
\* padder of ISO10126 with the same block size without an error, and the
\* result is the data that was padded.
Iso10126AcceptsLengthByteSchemes ==
    (pc = "crossed" /\ pb.worker = ISO10126 /\ src.worker \in {PKCS7, X923, RFC4303}) =>
        /\ out.panic = NoPanic
        /\ out.err = NilErr
        /\ ~out.isNil
        /\ out.data = clear

Iso10126AcceptsLengthByteSchemesWitness ==
    /\ pc = "crossed"
    /\ src = [worker |-> X923, blockSize |-> 3]
    /\ pb = [worker |-> ISO10126, blockSize |-> 3]
    /\ clear = <<1>>
    /\ padded = <<1, 0, 2>>
    /\ out.err = NilErr
    /\ out.data = <<1>>

\* C29: Fill(s, v) leaves a slice of the same length with v in every
\* element, for every length from 0 on, powers of two or not; an empty
\* slice stays empty.  SimpleFill, PowerFill and the Fill that chooses by
\* the length give the same slice.
FillSetsEveryElement ==
    (fillCall.pc = "done") =>
        /\ Len(fillCall.result) = Len(fillCall.s)
        /\ \A i \in 0..(Len(fillCall.s) - 1) : At(fillCall.result, i) = fillCall.v
        /\ fillCall.result = Fill(fillCall.s, fillCall.v)
        /\ fillCall.result = SimpleFill(fillCall.s, fillCall.v)
        /\ fillCall.result = PowerFill(fillCall.s, fillCall.v)
        /\ fillCall.result = FillByLength(fillCall.s, fillCall.v)

FillSetsEveryElementWitness ==
    /\ fillCall.pc = "done"
    /\ fillCall.fn = "Fill"
    /\ fillCall.s = MakeBytes(7)
    /\ fillCall.v = 170
    /\ fillCall.result = <<170, 170, 170, 170, 170, 170, 170>>

\* C30: anythingBut returns a byte that differs from its argument, and with
\* a random source that delivers every value again and again its loop ends:
\* every call of the ArbitraryTailByte filler comes to its end, with a last
\* block whose padding differs from the last data byte.
AnythingButTerminates ==
    /\ [](retry.pc \in {"drawn", "done"} /\ retry.lastBlockDataLen # 0
             => retry.result # NotThisByte)
    /\ [](retry.pc = "done"
             => /\ Len(retry.lastBlock) = retry.blockSize
                /\ \A i \in retry.lastBlockDataLen..(retry.blockSize - 1) :
                      At(retry.lastBlock, i) = retry.result)
    /\ (retry.pc = "called") ~> (retry.pc = "done")

\* The first two draws gave the last data byte, the third one ended the loop.
AnythingButTerminatesWitness ==
    /\ retry.pc = "done"
    /\ retry.blockSize = 3
    /\ retry.lastData = <<1, 128>>
    /\ retry.draws = MaxDraws + 1
    /\ retry.result = MaxUint8
    /\ retry.lastBlock = <<1, 128, MaxUint8>>

====
